---------------------------- MODULE Spec2Model ----------------------------
(***************************************************************************)
(* Repository scanner (scanner.py) and metadata query tool (agent.py).     *)
(*                                                                         *)
(* A file or directory name is a sequence of one-character strings, so     *)
(* that suffix extraction, prefix tests and substring tests are computed   *)
(* the way the Python code computes them.  A text line is a sequence of    *)
(* characters without its terminator; a file's content is a sequence of    *)
(* lines.                                                                  *)
(***************************************************************************)
EXTENDS Integers, Sequences, FiniteSets, TLC

VARIABLES
    root,       \* the directory handed to scan_directory: location, existence, children
    outdir,     \* the output directory: file name -> [state, record]
    repos,      \* scan_directory's local list of discovered repositories (child indices)
    idx,        \* position of the for loop over repos
    pc,         \* control point of the run
    log,        \* lines printed so far (kind and repository)
    scanner,    \* the RepositoryScanner of the current loop iteration
    METADATA,   \* agent.py's global cache of loaded records
    answer      \* what list_most_active_repos returned

vars == <<root, outdir, repos, idx, pc, log, scanner, METADATA, answer>>

----------------------------------------------------------------------------
(* Bounds of the explored inputs.                                          *)

MaxEntries == 3     \* children of the scanned root directory
MaxFiles == 2       \* files of a repository tree in the census inputs
MaxCommits == 5     \* commits of a history in the author-ranking inputs

----------------------------------------------------------------------------
(* Names.                                                                  *)

n_Dockerfile == <<"D","o","c","k","e","r","f","i","l","e">>
n_README_md == <<"R","E","A","D","M","E",".","m","d">>
n_CLAUDE_md == <<"C","L","A","U","D","E",".","m","d">>
n_LICENSE == <<"L","I","C","E","N","S","E">>
n_LICENSE_md == <<"L","I","C","E","N","S","E",".","m","d">>
n_tests == <<"t","e","s","t","s">>
n_test == <<"t","e","s","t">>
n_venv == <<"v","e","n","v">>
n_node_modules == <<"n","o","d","e","_","m","o","d","u","l","e","s">>
n_pycache == <<"_","_","p","y","c","a","c","h","e","_","_">>
n_github == <<".","g","i","t","h","u","b">>
n_workflows == <<"w","o","r","k","f","l","o","w","s">>
n_git == <<".","g","i","t">>
n_src == <<"s","r","c">>
n_main_py == <<"m","a","i","n",".","p","y">>
n_MAIN_PY == <<"M","A","I","N",".","P","Y">>
n_foo_test_txt == <<"f","o","o","_","t","e","s","t",".","t","x","t">>
n_test_a_py == <<"t","e","s","t","_","a",".","p","y">>
n_dotdot == <<".",".">>
n_home == <<"h","o","m","e">>
n_cache == <<".","c","a","c","h","e">>

UpperCase == <<"A","B","C","D","E","F","G","H","I","J","K","L","M",
               "N","O","P","Q","R","S","T","U","V","W","X","Y","Z">>
LowerCase == <<"a","b","c","d","e","f","g","h","i","j","k","l","m",
               "n","o","p","q","r","s","t","u","v","w","x","y","z">>

\* str.lower() on one character
LowerChar(c) ==
    IF \E i \in 1..26 : UpperCase[i] = c
    THEN LowerCase[CHOOSE i \in 1..26 : UpperCase[i] = c]
    ELSE c

\* str.lower()
Lower(s) == [i \in 1..Len(s) |-> LowerChar(s[i])]

\* str.startswith(p)
StartsWith(s, p) == Len(s) >= Len(p) /\ SubSeq(s, 1, Len(p)) = p

\* p in s, for strings
Contains(s, p) ==
    \E i \in 1..(Len(s) - Len(p) + 1) : SubSeq(s, i, i + Len(p) - 1) = p

\* PurePath.suffix: from the last dot, unless that dot is first or last
Suffix(name) ==
    LET dots == {i \in 1..Len(name) : name[i] = "."}
    IN  IF dots = {} THEN <<>>
        ELSE LET i == CHOOSE j \in dots : \A k \in dots : k <= j
             IN  IF 1 < i /\ i < Len(name) THEN SubSeq(name, i, Len(name)) ELSE <<>>

\* Characters str.strip() removes
Whitespace == {" ", "\t", "\n", "\r", "\f"}

\* line.strip(), as a truth value: some character is not whitespace
StripNonEmpty(line) == \E i \in 1..Len(line) : line[i] \notin Whitespace


----------------------------------------------------------------------------
(* The file tree of a repository: a set of entries                         *)
(*   [dir, name, kind, lines, readable]                                    *)
(* dir is the path of the containing directory relative to the repository  *)
(* root, kind is "file" or "dir" (an explicitly listed directory; the      *)
(* directories on the path of an entry exist implicitly).                  *)

PathOf(e) == e.dir \o <<e.name>>

IsPrefix(p, q) == Len(p) <= Len(q) /\ SubSeq(q, 1, Len(p)) = p

\* Path.exists() of repo_path / rel
PathExists(tree, rel) == \E e \in tree : IsPrefix(rel, PathOf(e))

\* the entry at rel is a regular file
IsFile(tree, rel) == \E e \in tree : PathOf(e) = rel /\ e.kind = "file"

\* the names of the entries of directory d
Listing(tree, d) ==
    {PathOf(e)[Len(d) + 1] : e \in {x \in tree : IsPrefix(d, x.dir)}}

\* os.walk's dirs and files of directory d
SubDirs(tree, d) == {n \in Listing(tree, d) : ~IsFile(tree, d \o <<n>>)}
FilesIn(tree, d) == {e \in tree : e.dir = d /\ e.kind = "file"}

\* the filter of scanner.py:128 applied to os.walk's dirs
ExcludedDirs == {n_venv, n_node_modules, n_pycache}
KeepDir(d) == ~StartsWith(d, <<".">>) /\ d \notin ExcludedDirs

\* os.walk(top): the directories visited below d (d included), top-down;
\* with prune, dirs[:] is filtered by KeepDir before descending
RECURSIVE os_walk(_, _, _)
os_walk(tree, d, prune) ==
    {d} \cup UNION {os_walk(tree, d \o <<n>>, prune) :
                        n \in {m \in SubDirs(tree, d) : prune => KeepDir(m)}}

----------------------------------------------------------------------------
(* RepositoryScanner.  self = [repo_path, tree, commits, metadata];        *)
(* repo_path is Path(repo_path).parts, commits is the history in           *)
(* traversal order, each commit [author, age] with age in whole days.      *)

NoMetadata == [name |-> <<>>]

\* RepositoryScanner.__init__
NewScanner(repo_path, repo) ==
    [repo_path |-> repo_path, tree |-> repo.tree, commits |-> repo.commits,
     metadata |-> NoMetadata]

_check_file_exists(self, filename) == PathExists(self.tree, <<filename>>)

SkippedRoot(parts) ==
    \E i \in 1..Len(parts) : StartsWith(parts[i], <<".">>) \/ parts[i] = n_venv

IsTestName(file) ==
    Contains(file, <<"_","t","e","s","t">>) \/ Contains(file, <<"t","e","s","t","_">>)

_check_tests(self) ==
    IF PathExists(self.tree, <<n_tests>>) THEN TRUE
    ELSE IF PathExists(self.tree, <<n_test>>) THEN TRUE
    ELSE \E d \in os_walk(self.tree, <<>>, FALSE) :
            /\ ~SkippedRoot(self.repo_path \o d)
            /\ \E f \in FilesIn(self.tree, d) : IsTestName(f.name)

ci_path == <<n_github, n_workflows>>

\* ci_path.iterdir() raises NotADirectoryError when ci_path is a regular file
_check_ci_raises(self) == IsFile(self.tree, ci_path)

_check_ci(self) ==
    PathExists(self.tree, ci_path) /\ Listing(self.tree, ci_path) # {}

language_map ==
    {<<<<".","p","y">>, "Python">>, <<<<".","j","s">>, "JavaScript">>,
     <<<<".","t","s">>, "TypeScript">>, <<<<".","j","a","v","a">>, "Java">>,
     <<<<".","g","o">>, "Go">>, <<<<".","r","s">>, "Rust">>,
     <<<<".","r","b">>, "Ruby">>, <<<<".","p","h","p">>, "PHP">>,
     <<<<".","c">>, "C">>, <<<<".","c","p","p">>, "C++">>,
     <<<<".","c","s">>, "C#">>, <<<<".","s","h">>, "Shell">>,
     <<<<".","y","a","m","l">>, "YAML">>, <<<<".","y","m","l">>, "YAML">>,
     <<<<".","j","s","o","n">>, "JSON">>, <<<<".","m","d">>, "Markdown">>}

InLanguageMap(extension) == \E p \in language_map : p[1] = extension
LanguageOf(extension) == (CHOOSE p \in language_map : p[1] = extension)[2]

\* Counter: a function from the keys present to their counts
EmptyCounter == [k \in {} |-> 0]

\* counter[k] += n (a missing key counts as 0 and is created)
CounterAdd(counter, k, n) ==
    IF k \in DOMAIN counter THEN [counter EXCEPT ![k] = @ + n]
    ELSE [x \in DOMAIN counter \cup {k} |-> IF x = k THEN n ELSE counter[x]]

\* a count that takes every physical line
AllLines(lines) == Len(lines)

\* len([line for line in f if line.strip()])
NonEmptyLines(lines) == Len(SelectSeq(lines, StripNonEmpty))

\* a Dockerfile count that leaves out blank lines like the other counts
DockerfileCountNonBlank(self) ==
    LET hit == {e \in self.tree : PathOf(e) = <<n_Dockerfile>> /\ e.kind = "file"
                                    /\ e.readable}
    IN  IF hit = {} THEN EmptyCounter
        ELSE [k \in {"Dockerfile"} |-> NonEmptyLines((CHOOSE e \in hit : TRUE).lines)]

\* scanner.py:116-123, the special case for Dockerfile
DockerfileCount(self) ==
    LET hit == {e \in self.tree : PathOf(e) = <<n_Dockerfile>> /\ e.kind = "file"
                                    /\ e.readable}
    IN  IF hit = {} THEN EmptyCounter
        ELSE [k \in {"Dockerfile"} |-> Len((CHOOSE e \in hit : TRUE).lines)]

\* scanner.py:130-141, the files of the walk, one after the other
RECURSIVE CountFiles(_, _)
CountFiles(counter, files) ==
    IF files = {} THEN counter
    ELSE LET f == CHOOSE x \in files : TRUE
             extension == Lower(Suffix(f.name))
             next == IF InLanguageMap(extension) /\ f.readable
                     THEN CounterAdd(counter, LanguageOf(extension),
                                     NonEmptyLines(f.lines))
                     ELSE counter
         IN  CountFiles(next, files \ {f})

_count_languages(self) ==
    CountFiles(DockerfileCount(self),
               UNION {FilesIn(self.tree, d) : d \in os_walk(self.tree, <<>>, TRUE)})


\* the window of _count_recent_commits (its default argument)
days == 30

\* the number of names _get_top_authors returns (its default argument)
limit == 3

\* repo.iter_commits(after=now - days): the commits younger than the cutoff
_count_recent_commits(self) ==
    Len(SelectSeq(self.commits, LAMBDA c : c.age < days))

\* author_counts after the loop of scanner.py:173-174: the (author, count)
\* pairs of the Counter in insertion order, i.e. by first encounter
RECURSIVE CountAuthors(_, _)
CountAuthors(pairs, commits) ==
    IF commits = <<>> THEN pairs
    ELSE LET a == Head(commits).author
             next == IF \E i \in 1..Len(pairs) : pairs[i][1] = a
                     THEN [i \in 1..Len(pairs) |->
                              IF pairs[i][1] = a THEN <<a, pairs[i][2] + 1>>
                              ELSE pairs[i]]
                     ELSE Append(pairs, <<a, 1>>)
         IN  CountAuthors(next, Tail(commits))

\* an insertion that puts x in front of the elements of equal count
InsertDescendingUnstable(sorted, x) ==
    LET k == Cardinality({i \in 1..Len(sorted) : sorted[i][2] > x[2]})
    IN  SubSeq(sorted, 1, k) \o <<x>> \o SubSeq(sorted, k + 1, Len(sorted))

\* sorted(items, key=count, reverse=True): a stable sort, equal counts keep
\* their order; element x goes behind every element whose count is >= its own
InsertDescending(sorted, x) ==
    LET k == Cardinality({i \in 1..Len(sorted) : sorted[i][2] >= x[2]})
    IN  SubSeq(sorted, 1, k) \o <<x>> \o SubSeq(sorted, k + 1, Len(sorted))

RECURSIVE SortedDescending(_)
SortedDescending(items) ==
    IF items = <<>> THEN <<>>
    ELSE InsertDescending(SortedDescending(SubSeq(items, 1, Len(items) - 1)),
                          items[Len(items)])

Min(a, b) == IF a <= b THEN a ELSE b

\* Counter.most_common(n) == sorted(items, key=count, reverse=True)[:n]
most_common(pairs, n) == SubSeq(SortedDescending(pairs), 1, Min(n, Len(pairs)))

_get_top_authors(self) ==
    LET top == most_common(CountAuthors(<<>>, self.commits), limit)
    IN  [i \in 1..Len(top) |-> top[i][1]]

\* sum(counter.values())
RECURSIVE SumValues(_)
SumValues(counter) ==
    IF DOMAIN counter = {} THEN 0
    ELSE LET k == CHOOSE x \in DOMAIN counter : TRUE
         IN  counter[k] + SumValues([x \in DOMAIN counter \ {k} |-> counter[x]])

\* scanner.py:37-50, the record as first assembled
AssembleMetadata(self) ==
        [name |-> self.repo_path[Len(self.repo_path)],
         path |-> self.repo_path,
         languages |-> _count_languages(self),
         loc_total |-> 0,
         commits_last_30_days |-> _count_recent_commits(self),
         top_authors |-> _get_top_authors(self),
         has_readme |-> _check_file_exists(self, n_README_md),
         has_claude |-> _check_file_exists(self, n_CLAUDE_md),
         has_license |-> _check_file_exists(self, n_LICENSE)
                            \/ _check_file_exists(self, n_LICENSE_md),
         has_tests |-> _check_tests(self),
         has_ci |-> _check_ci(self),
         has_dockerfile |-> _check_file_exists(self, n_Dockerfile)]


\* a scan that leaves loc_total as first assembled
LocTotalNotSet(metadata) == metadata

\* scanner.py:53, the total lines of code
SetLocTotal(metadata) ==
    [metadata EXCEPT !.loc_total = SumValues(metadata.languages)]

\* RepositoryScanner.scan: self afterwards; self.metadata is what it returns
scan(self) == [self EXCEPT !.metadata = SetLocTotal(AssembleMetadata(self))]

----------------------------------------------------------------------------
(* The output directory and save_metadata.  A file is keyed by the         *)
(* repository name it is named after (<name>.json).                        *)

Absent == [state |-> "absent", record |-> NoMetadata]

\* What can go wrong in one loop iteration of scan_directory:
\*   init   Repo(repo_path) raises (the .git entry is no valid repository)
\*   scan   a history traversal or a directory listing raises
\*   mkdir  output_path.mkdir raises
\*   open   open(filepath, 'w') raises, nothing created
\*   dump   json.dump or the closing flush raises after open created the file
Faults == {"none", "init", "scan", "mkdir", "open", "dump"}

\* RepositoryScanner.save_metadata: the output directory afterwards
save_metadata(self, dir, fault) ==
    IF fault \in {"mkdir", "open"} THEN dir
    ELSE IF fault = "dump"
         THEN [dir EXCEPT ![self.metadata.name] =
                              [state |-> "partial", record |-> NoMetadata]]
         ELSE [dir EXCEPT ![self.metadata.name] =
                              [state |-> "complete", record |-> self.metadata]]

----------------------------------------------------------------------------
(* scan_directory.  root = [location, kind, children]: location is         *)
(* Path(repos_dir).parts, kind is "absent", "file" or "dir", children is   *)
(* the directory's entries in the order iterdir yields them, each          *)
(* [name, is_dir, tree, commits].                                          *)

NoScanner == [repo_path |-> <<>>, tree |-> {}, commits |-> <<>>,
              metadata |-> NoMetadata]

Line(kind, name) == [kind |-> kind, name |-> name]

\* a discovery that takes every child directory for a repository
IsRepositoryAnyDirectory(item) == item.is_dir

\* scanner.py:214, the test a child of the root must pass
IsRepository(item) == item.is_dir /\ PathExists(item.tree, <<n_git>>)

\* scanner.py:212-215, the list the loop runs over (indices of children)
RECURSIVE FindRepositories(_, _)
FindRepositories(children, i) ==
    IF i > Len(children) THEN <<>>
    ELSE (IF IsRepository(children[i]) THEN <<i>> ELSE <<>>)
             \o FindRepositories(children, i + 1)

\* scanner.py:205-221
Discover ==
    /\ pc = "start"
    /\ IF root.kind = "absent"
       THEN /\ log' = Append(log, Line("no_directory", <<>>))
            /\ pc' = "done"
            /\ UNCHANGED repos
       ELSE IF root.kind = "file"
       THEN \* iterdir raises NotADirectoryError, which nothing catches
            /\ pc' = "raised"
            /\ UNCHANGED <<log, repos>>
       ELSE /\ repos' = FindRepositories(root.children, 1)
            /\ IF repos' = <<>>
               THEN /\ log' = Append(log, Line("no_repositories", <<>>))
                    /\ pc' = "done"
               ELSE /\ log' = Append(log, Line("found", <<>>))
                    /\ pc' = "loop"
    /\ UNCHANGED <<root, outdir, idx, scanner, METADATA, answer>>

\* the for statement taking its next element, or ending
NextIteration == IF idx < Len(repos) THEN "loop" ELSE "done"

\* an except clause that ends the loop instead of continuing it
ExceptClauseBreaks == "done"

\* scanner.py:230-232, where the loop goes after the except clause
ExceptClause == NextIteration

\* scanner.py:224-232, one iteration of the loop
ScanRepo ==
    /\ pc = "loop"
    /\ \E fault \in Faults :
         LET item == root.children[repos[idx]]
             repo_path == root.location \o <<item.name>>
             made == NewScanner(repo_path, item)
             done == scan(made)
         IN  IF fault = "init"
             THEN /\ log' = Append(log, Line("error", item.name))
                  /\ pc' = ExceptClause
                  /\ UNCHANGED <<scanner, outdir>>
             ELSE IF fault = "scan" \/ _check_ci_raises(made)
             THEN /\ scanner' = made
                  /\ log' = log \o <<Line("scanning", item.name),
                                     Line("error", item.name)>>
                  /\ pc' = ExceptClause
                  /\ UNCHANGED outdir
             ELSE /\ scanner' = done
                  /\ outdir' = save_metadata(done, outdir, fault)
                  /\ IF fault = "none"
                     THEN /\ log' = log \o <<Line("scanning", item.name),
                                             Line("saved", item.name)>>
                          /\ pc' = NextIteration
                     ELSE /\ log' = log \o <<Line("scanning", item.name),
                                             Line("error", item.name)>>
                          /\ pc' = ExceptClause
    /\ idx' = idx + 1
    /\ UNCHANGED <<root, repos, METADATA, answer>>


----------------------------------------------------------------------------
(* agent.py: the loaded collection and the most-active query.              *)

\* the orders in which metadata_dir.glob("*.json") may yield the files
Orderings(names) ==
    {f \in [1..Cardinality(names) -> names] :
        \A i, j \in 1..Cardinality(names) : f[i] = f[j] => i = j}

\* agent.py:17-27; json.load raises on a file that holds no whole document
load_metadata ==
    /\ pc = "done"
    /\ LET files == {n \in DOMAIN outdir : outdir[n].state # "absent"}
       IN  IF \E n \in files : outdir[n].state = "partial"
           THEN /\ pc' = "load_failed"
                /\ UNCHANGED METADATA
           ELSE /\ \E order \in Orderings(files) :
                      METADATA' = [i \in 1..Len(order) |-> outdir[order[i]].record]
                /\ pc' = "loaded"
    /\ UNCHANGED <<root, outdir, repos, idx, log, scanner, answer>>

\* the sort key of agent.py:58
ActivityKey(r) == <<r, r.commits_last_30_days>>

\* sorted(METADATA, key=..., reverse=True): a new list, stable
SortedByActivity(records) ==
    LET keyed == [i \in 1..Len(records) |-> ActivityKey(records[i])]
        sorted == SortedDescending(keyed)
    IN  [i \in 1..Len(sorted) |-> sorted[i][1]]

\* agent.py:66-69, one "name (count commits)" item per record
RepoStrings(sorted_repos) ==
    [i \in 1..Len(sorted_repos) |->
        <<sorted_repos[i].name, sorted_repos[i].commits_last_30_days>>]

\* a query that sorts the loaded collection in place (METADATA.sort)
list_most_active_repos_in_place ==
    /\ pc = "loaded"
    /\ METADATA' = SortedByActivity(METADATA)
    /\ answer' = IF METADATA = <<>>
                 THEN [kind |-> "no_metadata", items |-> <<>>]
                 ELSE [kind |-> "most_active", items |-> RepoStrings(METADATA')]
    /\ pc' = "answered"
    /\ UNCHANGED <<root, outdir, repos, idx, log, scanner>>

\* agent.py:50-69
list_most_active_repos ==
    /\ pc = "loaded"
    /\ answer' = IF METADATA = <<>>
                 THEN [kind |-> "no_metadata", items |-> <<>>]
                 ELSE [kind |-> "most_active",
                       items |-> RepoStrings(SortedByActivity(METADATA))]
    /\ pc' = "answered"
    /\ UNCHANGED <<root, outdir, repos, idx, log, scanner, METADATA>>

Next == Discover \/ ScanRepo \/ load_metadata \/ list_most_active_repos

----------------------------------------------------------------------------
(* Inputs.                                                                 *)

l_code == <<"x">>
l_indented == <<" ", "x">>
l_empty == <<>>
l_blank == <<" ", "\t">>

File(dir, name, lines) ==
    [dir |-> dir, name |-> name, kind |-> "file", lines |-> lines, readable |-> TRUE]
Unreadable(dir, name, lines) ==
    [dir |-> dir, name |-> name, kind |-> "file", lines |-> lines, readable |-> FALSE]
Dir(dir, name) ==
    [dir |-> dir, name |-> name, kind |-> "dir", lines |-> <<>>, readable |-> TRUE]

GitDir == Dir(<<>>, n_git)

Commit(author, age) == [author |-> author, age |-> age]

\* a tree is well formed when no path is taken twice and no regular file
\* lies on the path of another entry
WellFormed(tree) ==
    \A e, f \in tree :
        e # f => /\ PathOf(e) # PathOf(f)
                 /\ ~(e.kind = "file" /\ IsPrefix(PathOf(e), f.dir))

\* the subsets of universe with at most n entries
RECURSIVE UpTo(_, _)
UpTo(universe, n) ==
    IF n = 0 THEN {{}}
    ELSE LET smaller == UpTo(universe, n - 1)
         IN  smaller \cup {s \cup {e} : s \in smaller, e \in universe}

\* the sequences over S of length at most n
RECURSIVE SeqUpTo(_, _)
SeqUpTo(S, n) ==
    IF n = 0 THEN {<<>>}
    ELSE LET shorter == SeqUpTo(S, n - 1)
         IN  shorter \cup {Append(s, x) : s \in shorter, x \in S}

Digits == <<"1","2","3","4","5","6","7","8","9">>
n_repos == <<"r","e","p","o","s">>
n_app == <<"a","p","p">>
n_dot_app == <<".","a","p","p">>

Child(name, is_dir, tree, commits) ==
    [name |-> name, is_dir |-> is_dir, tree |-> tree, commits |-> commits]

InitRest ==
    /\ outdir = [n \in {root.children[i].name : i \in 1..Len(root.children)} |-> Absent]
    /\ repos = <<>>
    /\ idx = 1
    /\ pc = "start"
    /\ log = <<>>
    /\ scanner = NoScanner
    /\ METADATA = <<>>
    /\ answer = [kind |-> "none", items |-> <<>>]

\* Batch runs: a root that is absent, a file, or a directory of up to
\* MaxEntries children, each a plain file, a directory without .git, or one
\* of three repositories that differ in their recent activity
BatchKinds ==
    {Child(<<>>, FALSE, {}, <<>>),
     Child(<<>>, TRUE, {File(<<>>, n_main_py, <<l_code>>)}, <<>>),
     Child(<<>>, TRUE, {GitDir, File(<<>>, n_main_py, <<l_code, l_empty>>)},
           <<Commit("Alice", 1), Commit("Bob", 2)>>),
     Child(<<>>, TRUE, {GitDir, File(<<>>, n_Dockerfile, <<l_code>>), Dir(<<>>, n_tests)},
           <<Commit("Bob", 3), Commit("Alice", 40)>>),
     Child(<<>>, TRUE, {GitDir}, <<Commit("Carol", 5), Commit("Carol", 60)>>)}

Named(children) ==
    [i \in 1..Len(children) |-> [children[i] EXCEPT !.name = <<"r", Digits[i]>>]]

Init ==
    /\ \E kind \in {"absent", "file", "dir"} :
         \E children \in SeqUpTo(BatchKinds, MaxEntries) :
            /\ kind # "dir" => children = <<>>
            /\ root = [location |-> <<n_repos>>, kind |-> kind,
                       children |-> Named(children)]
    /\ InitRest

Spec == Init /\ [][Next]_vars


\* A root holding one repository
OneRepository(location, name, tree, commits) ==
    [location |-> location, kind |-> "dir",
     children |-> <<Child(name, TRUE, tree \cup {GitDir}, commits)>>]

\* Census runs: one repository whose tree holds up to MaxFiles files, inside
\* and outside excluded directories, with and without a tracked extension,
\* empty, blank, mixed or unreadable
Contents(d, n) ==
    {File(d, n, <<>>), File(d, n, <<l_blank>>),
     File(d, n, <<l_code, l_empty, l_indented>>), Unreadable(d, n, <<l_code>>)}
CensusFiles ==
    UNION {Contents(<<>>, n) : n \in {n_Dockerfile, n_main_py, n_MAIN_PY}}
    \cup UNION {Contents(d, n_main_py) :
                   d \in {<<n_venv>>, <<n_git>>, <<n_src, n_node_modules>>}}
    \cup {File(<<n_src>>, n_Dockerfile, <<l_code, l_empty>>),
          File(<<n_src>>, n_main_py, <<l_code, l_blank>>)}

InitCensus ==
    /\ \E tree \in UpTo(CensusFiles, MaxFiles) :
          /\ WellFormed(tree)
          /\ root = OneRepository(<<n_repos>>, n_app, tree, <<Commit("Alice", 1)>>)
    /\ InitRest

SpecCensus == InitCensus /\ [][Next]_vars

\* Test-detection runs: one repository, located below plain, hidden, parent
\* or venv directories, itself plainly or hiddenly named, whose tree holds up
\* to MaxFiles entries
Locations == {<<n_repos>>, <<n_dotdot, n_repos>>, <<n_home, n_cache>>, <<n_home, n_venv>>}
TestsFiles ==
    {File(d, n, <<l_code>>) :
        d \in {<<>>, <<n_src>>, <<n_git>>, <<n_venv>>, <<n_src, n_venv>>},
        n \in {n_foo_test_txt, n_test_a_py, n_main_py}}
    \cup {Dir(<<>>, n_tests), Dir(<<>>, n_test), Dir(<<n_src>>, n_tests)}

InitTests ==
    /\ \E location \in Locations, name \in {n_app, n_dot_app} :
         \E tree \in UpTo(TestsFiles, MaxFiles) :
            /\ WellFormed(tree)
            /\ root = OneRepository(location, name, tree, <<Commit("Alice", 1)>>)
    /\ InitRest

SpecTests == InitTests /\ [][Next]_vars

\* History runs: one repository with up to MaxCommits commits by up to four
\* authors, traversed from the newest (12 days old) back in steps of 12 days
Authors == {"Alice", "Bob", "Carol", "Dave"}

InitHistory ==
    /\ \E authors \in SeqUpTo(Authors, MaxCommits) :
          root = OneRepository(<<n_repos>>, n_app,
                               {File(<<>>, n_main_py, <<l_code>>)},
                               [k \in 1..Len(authors) |-> Commit(authors[k], 12 * k)])
    /\ InitRest

SpecHistory == InitHistory /\ [][Next]_vars

\* The end-to-end scenario: README.md, a Dockerfile of 3 lines one of them
\* blank, src/main.py of 12 lines two of them blank, and a history of 5
\* recent commits, 3 by Alice and 2 by Bob, in any order
Blanks == {l_empty, l_blank}
WithBlanks(n, at, blank) == [i \in 1..n |-> IF i \in at THEN blank ELSE l_code]

InitE2E ==
    /\ \E readme \in {<<>>, <<l_blank>>, <<l_code>>, <<l_code, l_empty, l_indented>>},
          d \in 1..3, i \in {1, 6}, j \in 1..12, blank \in Blanks,
          authors \in [1..5 -> {"Alice", "Bob"}] :
          /\ i < j
          /\ Cardinality({k \in 1..5 : authors[k] = "Alice"}) = 3
          /\ root = OneRepository(<<n_repos>>, n_app,
                        {File(<<>>, n_README_md, readme),
                         File(<<>>, n_Dockerfile, WithBlanks(3, {d}, blank)),
                         File(<<n_src>>, n_main_py, WithBlanks(12, {i, j}, blank))},
                        [k \in 1..5 |-> Commit(authors[k], k)])
    /\ InitRest

SpecE2E == InitE2E /\ [][Next]_vars

----------------------------------------------------------------------------
(* Properties of the batch scan.                                           *)

\* the lines that end a loop iteration, one per attempted repository
Outcomes == SelectSeq(log, LAMBDA l : l.kind \in {"error", "saved"})

\* the children of the root that are directories holding a .git entry
Qualifying ==
    {i \in 1..Len(root.children) :
        root.children[i].is_dir /\ \E e \in root.children[i].tree : PathOf(e)[1] = n_git}

Ended == pc \in {"done", "load_failed", "loaded", "answered"}

\* what a scan of child i returns when nothing raises
RecordOf(i) ==
    scan(NewScanner(root.location \o <<root.children[i].name>>, root.children[i])).metadata

\* C1: whatever subset of the discovered repositories fails, the repositories
\* are attempted one by one in discovery order, the batch ends only after the
\* last one, and every repository whose scan and save succeeded has its
\* complete record in the output directory.
C1_EveryRepositoryAttempted ==
    (root.kind = "dir" /\ pc # "start") =>
        /\ Len(repos) = Cardinality(Qualifying)
        /\ \A k \in 1..Len(repos) :
              /\ repos[k] \in Qualifying
              /\ \A j \in 1..(k - 1) : repos[j] < repos[k]
        /\ Len(Outcomes) = idx - 1
        /\ \A k \in 1..Len(Outcomes) :
              /\ k <= Len(repos)
              /\ Outcomes[k].name = root.children[repos[k]].name
              /\ Outcomes[k].kind = "saved" =>
                    outdir[Outcomes[k].name] =
                        [state |-> "complete", record |-> RecordOf(repos[k])]
        /\ Ended => Len(Outcomes) = Len(repos)

\* C1 witness: three repositories, the second failed inside scan(), the first
\* and the third have their records.
C1_Witness ==
    /\ pc = "done"
    /\ Len(repos) = 3
    /\ Len(Outcomes) = 3
    /\ Outcomes[1].kind = "saved" /\ Outcomes[2].kind = "error" /\ Outcomes[3].kind = "saved"
    /\ \E k \in 1..Len(log) : log[k] = Line("scanning", Outcomes[2].name)
    /\ outdir[Outcomes[1].name].state = "complete"
    /\ outdir[Outcomes[2].name].state = "absent"
    /\ outdir[Outcomes[3].name].state = "complete"

\* C2: a repository whose construction, scan or save raised has no partial
\* record file in the output directory.
C2_NoPartialRecord ==
    \A k \in 1..Len(Outcomes) :
        Outcomes[k].kind = "error" => outdir[Outcomes[k].name].state # "partial"

\* C3: with the root absent, or a directory without a qualifying child, the
\* call returns normally having printed one diagnostic, built no scanner and
\* written no record.
C3_NothingToScan ==
    (pc # "start" /\ (root.kind = "absent" \/ (root.kind = "dir" /\ Qualifying = {}))) =>
        /\ Ended
        /\ log = <<Line(IF root.kind = "absent" THEN "no_directory" ELSE "no_repositories",
                        <<>>)>>
        /\ scanner = NoScanner
        /\ \A n \in DOMAIN outdir : outdir[n] = Absent

\* C3 witness: the root holds a file and a directory without .git, and the
\* call has returned.
C3_Witness ==
    /\ pc = "done"
    /\ root.kind = "dir"
    /\ Qualifying = {}
    /\ \E i, j \in 1..Len(root.children) :
          root.children[i].is_dir /\ ~root.children[j].is_dir

\* items is records stably sorted by descending count: some rearrangement p
\* of the positions lists every record once, counts never increase along it,
\* and records of equal count keep their relative order
StablySorted(records, items) ==
    /\ Len(items) = Len(records)
    /\ \E p \in Orderings(1..Len(records)) :
          /\ \A i \in 1..Len(items) :
                items[i] = <<records[p[i]].name, records[p[i]].commits_last_30_days>>
          /\ \A i, j \in 1..Len(items) :
                i < j => \/ items[i][2] > items[j][2]
                         \/ items[i][2] = items[j][2] /\ p[i] < p[j]

\* C10: list_most_active_repos returns every loaded record once, with its name
\* and count, in stable descending order of commits_last_30_days, and leaves
\* METADATA as it was.
C10_MostActiveStableSort ==
    [][(pc = "loaded" /\ pc' = "answered") =>
          /\ METADATA' = METADATA
          /\ StablySorted(METADATA, answer'.items)]_vars

\* C10 witness: the query answered over three records, one pair out of order
\* and one pair tied.
C10_Witness ==
    /\ pc = "answered"
    /\ answer.kind = "most_active"
    /\ Len(METADATA) = 3
    /\ \E i, j \in 1..3 :
          i < j /\ METADATA[i].commits_last_30_days < METADATA[j].commits_last_30_days
    /\ \E i, j \in 1..3 :
          i < j /\ METADATA[i].commits_last_30_days = METADATA[j].commits_last_30_days


----------------------------------------------------------------------------
(* Properties of the records.                                              *)

\* the records scan() has returned and save_metadata has persisted
Returned == IF scanner.metadata = NoMetadata THEN {} ELSE {scanner.metadata}
Persisted == {outdir[n].record : n \in {m \in DOMAIN outdir : outdir[m].state = "complete"}}

\* the sum of f over the finite set S
Sum(f, S) ==
    LET sum[T \in SUBSET S] ==
            IF T = {} THEN 0
            ELSE LET x == CHOOSE y \in T : TRUE IN f[x] + sum[T \ {x}]
    IN  sum[S]

\* C4: every record returned by scan() and every record persisted has
\* loc_total equal to the sum of the values of its languages mapping.
C4_LocTotalIsSum ==
    \A r \in Returned \cup Persisted : r.loc_total = Sum(r.languages, DOMAIN r.languages)

\* C4 witness: a persisted record with two languages and a positive total.
C4_Witness ==
    \E r \in Persisted : Cardinality(DOMAIN r.languages) = 2 /\ r.loc_total > 2

\* C5: no key of a record's languages mapping has the value zero.
C5_NoZeroEntries ==
    \A r \in Returned \cup Persisted : \A k \in DOMAIN r.languages : r.languages[k] > 0

\* the tree of the one repository of a single-repository run
TheTree == root.children[1].tree

Hidden(name) == Len(name) > 0 /\ name[1] = "."

\* the lines of a file holding at least one non-whitespace character
NonBlank(e) ==
    Cardinality({i \in 1..Len(e.lines) :
                    \E j \in 1..Len(e.lines[i]) : e.lines[i][j] \notin Whitespace})

\* the readable files of language lang outside hidden directories, venv,
\* node_modules and __pycache__
Counted(lang) ==
    {e \in TheTree :
        /\ e.kind = "file" /\ e.readable
        /\ <<Lower(Suffix(e.name)), lang>> \in language_map
        /\ \A i \in 1..Len(e.dir) :
              ~Hidden(e.dir[i]) /\ e.dir[i] \notin {n_venv, n_node_modules, n_pycache}}

RootDockerfile ==
    {e \in TheTree : e.dir = <<>> /\ e.name = n_Dockerfile /\ e.kind = "file" /\ e.readable}

\* C9: a language's count is the number of non-blank lines of the readable
\* files with one of its extensions outside excluded directories, and the
\* Dockerfile entry is the number of physical lines, blank ones included, of
\* the file named Dockerfile at the repository root.
C9_CensusCounts ==
    \A r \in Returned \cup Persisted :
        /\ \A lang \in {p[2] : p \in language_map} :
              /\ lang \in DOMAIN r.languages <=> Counted(lang) # {}
              /\ Counted(lang) # {} =>
                    r.languages[lang] = Sum([e \in Counted(lang) |-> NonBlank(e)], Counted(lang))
        /\ "Dockerfile" \in DOMAIN r.languages <=> RootDockerfile # {}
        /\ \A e \in RootDockerfile : r.languages["Dockerfile"] = Len(e.lines)
        /\ DOMAIN r.languages \subseteq {p[2] : p \in language_map} \cup {"Dockerfile"}

\* C9 witness: a persisted record of a tree whose root Dockerfile and whose
\* root main.py both hold a blank line among other lines.
C9_Witness ==
    /\ \E r \in Persisted : r.languages = [k \in {"Dockerfile", "Python"} |->
                                              IF k = "Dockerfile" THEN 3 ELSE 2]
    /\ \E e \in RootDockerfile : Len(e.lines) = 3 /\ NonBlank(e) = 2
    /\ \E e \in Counted("Python") : Len(e.lines) = 3 /\ NonBlank(e) = 2

\* C7: has_tests holds exactly when a tests or test entry exists at the
\* repository root or a file of the tree outside the tree's hidden and venv
\* directories has _test or test_ in its name, wherever the repository lies.
C7_HasTests ==
    \A r \in Returned \cup Persisted :
        r.has_tests <=>
            \/ \E e \in TheTree : PathOf(e)[1] \in {n_tests, n_test}
            \/ \E e \in TheTree :
                  /\ e.kind = "file"
                  /\ IsTestName(e.name)
                  /\ \A i \in 1..Len(e.dir) : ~Hidden(e.dir[i]) /\ e.dir[i] # n_venv

TheCommits == root.children[1].commits

CommitsBy(a) == Cardinality({k \in 1..Len(TheCommits) : TheCommits[k].author = a})
FirstBy(a) == CHOOSE k \in 1..Len(TheCommits) :
                  /\ TheCommits[k].author = a
                  /\ \A j \in 1..(k - 1) : TheCommits[j].author # a
AuthorsOf == {TheCommits[k].author : k \in 1..Len(TheCommits)}

\* C8: top_authors holds min(3, distinct authors) names without duplicates,
\* in descending order of their commit counts over the whole history, equal
\* counts in order of first encounter, and nobody left out has more commits
\* than somebody listed.
C8_TopAuthors ==
    \A r \in Returned \cup Persisted :
        LET top == r.top_authors
        IN  /\ Len(top) = (IF Cardinality(AuthorsOf) < 3 THEN Cardinality(AuthorsOf) ELSE 3)
            /\ \A i \in 1..Len(top) : top[i] \in AuthorsOf
            /\ \A i, j \in 1..Len(top) :
                  i < j => /\ top[i] # top[j]
                           /\ \/ CommitsBy(top[i]) > CommitsBy(top[j])
                              \/ /\ CommitsBy(top[i]) = CommitsBy(top[j])
                                 /\ FirstBy(top[i]) < FirstBy(top[j])
            /\ \A a \in AuthorsOf : \A i \in 1..Len(top) :
                  (\A j \in 1..Len(top) : top[j] # a) => CommitsBy(a) <= CommitsBy(top[i])

\* C8 witness: a record over four authors where the most frequent author was
\* not the first encountered and the others are tied.
C8_Witness ==
    \E r \in Persisted :
        /\ Cardinality(AuthorsOf) = 4
        /\ Len(r.top_authors) = 3
        /\ r.top_authors[1] # TheCommits[1].author
        /\ CommitsBy(r.top_authors[2]) = CommitsBy(r.top_authors[3])

\* the language mapping with exactly the given Dockerfile, Python and
\* (with has_md) Markdown counts
Languages(dockerfile, python, has_md, markdown) ==
    [k \in {"Dockerfile", "Python"} \cup (IF has_md THEN {"Markdown"} ELSE {}) |->
        IF k = "Dockerfile" THEN dockerfile ELSE IF k = "Python" THEN python ELSE markdown]

\* C6, as stated: the scenario's record has languages Dockerfile 3 and
\* Python 10 and nothing else, loc_total 13, a README and a Dockerfile,
\* 5 recent commits and top authors Alice, Bob.
C6_Scenario ==
    \A r \in Returned \cup Persisted :
        /\ r.languages = Languages(3, 10, FALSE, 0)
        /\ r.loc_total = 13
        /\ r.has_readme /\ r.has_dockerfile
        /\ r.commits_last_30_days = 5
        /\ r.top_authors = <<"Alice", "Bob">>

\* C6, amended: README.md is itself a tracked Markdown file, so the record
\* has languages Dockerfile 3, Python 10 and Markdown m, with m the number of
\* non-blank lines of README.md, and loc_total 13 + m; the rest as stated.
C6_ScenarioWithMarkdown ==
    \A r \in Returned \cup Persisted :
        LET m == NonBlank(CHOOSE e \in TheTree : PathOf(e) = <<n_README_md>>)
        IN  /\ r.languages = Languages(3, 10, TRUE, m)
            /\ r.loc_total = 13 + m
            /\ r.has_readme /\ r.has_dockerfile
            /\ r.commits_last_30_days = 5
            /\ r.top_authors = <<"Alice", "Bob">>

\* C6 witness: the scenario's record is persisted, Bob's commit encountered
\* first and the README holding two non-blank lines.
C6_Witness ==
    /\ \E r \in Persisted : r.languages["Markdown"] = 2 /\ r.loc_total = 15
    /\ TheCommits[1].author = "Bob"

=============================================================================
